---- MODULE Spec2Model ----
(***************************************************************************)
(* Model of the inventory MCP server: the call-tool dispatcher, the        *)
(* per-tool operations and the find-or-create stock location flow, in the  *)
(* three builds of the server found in the repository:                     *)
(*   "store" : the single-tool build (store_inventory_item)                *)
(*   "full"  : the six-tool build                                          *)
(*   "basic" : the three-tool build (src/server.ts)                        *)
(* An invocation is a sequence of steps separated by the awaits on its     *)
(* HTTP calls; the backend answers each call nondeterministically.         *)
(***************************************************************************)
EXTENDS Integers, Sequences, FiniteSets, TLC

(***************************************************************************)
(* Bounds                                                                  *)
(***************************************************************************)
NumInv == 2          \* invocation slots of the host
MaxLocations == 2    \* stock locations the backend can hold
MaxDescLen == 1      \* length of the generated location descriptions

Inv == 1..NumInv

(***************************************************************************)
(* JavaScript values.  A string is the sequence of its pieces, which are   *)
(* single characters wherever the program looks inside the string.         *)
(***************************************************************************)
Undefined == [type |-> "undefined"]
Null == [type |-> "null"]
Num(n) == [type |-> "number", num |-> n]
Str(s) == [type |-> "string", str |-> s]
Arr(s) == [type |-> "array", items |-> s]
Obj(f) == [type |-> "object", props |-> f]
EmptyObj == Obj(<<>>)

Range(s) == {s[k] : k \in DOMAIN s}

\* o.k : reading a property of an object, an array or a primitive
Get(o, k) ==
    IF o.type = "object" /\ k \in DOMAIN o.props THEN o.props[k] ELSE Undefined

\* o?.k
OptGet(o, k) == IF o \in {Undefined, Null} THEN Undefined ELSE Get(o, k)

\* ToBoolean
Truthy(v) ==
    CASE v.type = "undefined" -> FALSE
      [] v.type = "null" -> FALSE
      [] v.type = "number" -> v.num # 0
      [] v.type = "string" -> Len(v.str) > 0
      [] OTHER -> TRUE

\* a || b
Or(a, b) == IF Truthy(a) THEN a ELSE b

\* v.length
Length(v) ==
    CASE v.type = "array" -> Num(Len(v.items))
      [] v.type = "string" -> Num(Len(v.str))
      [] OTHER -> Undefined

\* v > 0 (undefined converts to NaN, which compares false)
GreaterThanZero(v) == v.type = "number" /\ v.num > 0

(***************************************************************************)
(* Text: a sequence of fragments, a literal piece of a template or the     *)
(* JSON rendering of a value.                                              *)
(***************************************************************************)
Lit(s) == [type |-> "lit", s |-> s]

\* what JSON.stringify keeps of a value: undefined properties are dropped
RECURSIVE Wire(_)
Wire(v) ==
    CASE v.type = "object" ->
           Obj([k \in {j \in DOMAIN v.props : v.props[j] # Undefined} |->
                   Wire(v.props[k])])
      [] v.type = "array" -> Arr([k \in DOMAIN v.items |-> Wire(v.items[k])])
      [] OTHER -> v

\* JSON.stringify(v, null, 2)
Json(v) == [type |-> "json", value |-> Wire(v), indent |-> 2]

Chars(s) == [k \in DOMAIN s |-> Lit(s[k])]

DigitChars == <<"0", "1", "2", "3", "4", "5", "6", "7", "8", "9">>

RECURSIVE Decimal(_)
Decimal(n) ==
    IF n < 10 THEN <<DigitChars[n + 1]>>
    ELSE Decimal(n \div 10) \o <<DigitChars[(n % 10) + 1]>>

\* `${v}` : the string conversion of a template literal
TemplateString(v) ==
    CASE v.type = "undefined" -> <<Lit("undefined")>>
      [] v.type = "null" -> <<Lit("null")>>
      [] v.type = "number" -> Chars(Decimal(v.num))
      [] v.type = "string" -> Chars(v.str)
      [] OTHER -> <<Lit("[object Object]")>>

(***************************************************************************)
(* Errors.  An error carries a message and, when axios raised it for a     *)
(* response with an error status, the response.                            *)
(***************************************************************************)
Error(msg) == [type |-> "error", message |-> msg, response |-> Undefined]

TypeErrorDestructure ==
    Error(<<Lit("Cannot destructure property '"), Lit("item_name"),
            Lit("' of 'args' as it is undefined.")>>)
TypeErrorReadData ==
    Error(<<Lit("Cannot read properties of null (reading 'data')")>>)
TypeErrorReplace ==
    Error(<<Lit("Cannot read properties of undefined (reading 'replace')")>>)
TypeErrorReadId ==
    Error(<<Lit("Cannot read properties of undefined (reading 'id')")>>)

\* the errors axios can raise for a call: an error status whose body has a
\* message, an error status whose body has none, an error status whose body
\* has an empty message, and no response at all
AxiosErrors ==
    { [type |-> "error",
       message |-> <<Lit("Request failed with status code 422")>>,
       response |-> Obj([status |-> Num(422),
                         data |-> Obj([message |-> Str(<<"I", "n", "v", "a", "l", "i", "d">>)])])],
      [type |-> "error",
       message |-> <<Lit("Request failed with status code 500")>>,
       response |-> Obj([status |-> Num(500), data |-> Str(<<>>)])],
      [type |-> "error",
       message |-> <<Lit("Request failed with status code 404")>>,
       response |-> Obj([status |-> Num(404), data |-> Obj([message |-> Str(<<>>)])])],
      [type |-> "error",
       message |-> <<Lit("Network Error")>>,
       response |-> Undefined] }

\* error.response?.data?.message || error.message, inside a template
ErrorDetail(e) ==
    LET m == OptGet(OptGet(e.response, "data"), "message")
    IN  IF Truthy(m) THEN TemplateString(m) ELSE e.message

(***************************************************************************)
(* HTTP requests as handed to axios                                        *)
(***************************************************************************)
API_BASE_URL == Lit("${API_BASE_URL}")

AuthAccept == {"Authorization", "Accept"}
AuthContentAccept == {"Authorization", "Content-Type", "Accept"}

Request(method, path, headers, params, data) ==
    [method |-> method, url |-> <<API_BASE_URL>> \o path, headers |-> headers,
     params |-> params, data |-> data]

StockLocationsPath == <<Lit("/stock-locations")>>
InventoryItemsPath == <<Lit("/inventory-items")>>

(***************************************************************************)
(* Steps of an invocation: suspend at an HTTP call, return, or throw       *)
(***************************************************************************)
Await(label, req) == [kind |-> "await", label |-> label, request |-> req]
Return(value) == [kind |-> "return", value |-> value]
Throw(e) == [kind |-> "throw", error |-> e]

TextContent(text) == [content |-> <<[type |-> "text", text |-> text]>>]

RethrowGeneric(prefix, step) ==
    IF step.kind = "throw"
    THEN Throw(Error(<<Lit(prefix)>> \o step.error.message))
    ELSE step

\* a catch block that rethrows with a prefix: runs when the step threw
Rethrow(prefix, step) ==
    IF step.kind = "throw"
    THEN Throw(Error(<<Lit(prefix)>> \o ErrorDetail(step.error)))
    ELSE step

(***************************************************************************)
(* The short name of an auto-created location                              *)
(***************************************************************************)
LowerCase == <<"a", "b", "c", "d", "e", "f", "g", "h", "i", "j", "k", "l", "m",
               "n", "o", "p", "q", "r", "s", "t", "u", "v", "w", "x", "y", "z">>
UpperCase == <<"A", "B", "C", "D", "E", "F", "G", "H", "I", "J", "K", "L", "M",
               "N", "O", "P", "Q", "R", "S", "T", "U", "V", "W", "X", "Y", "Z">>

\* the characters the pattern /[^a-zA-Z0-9]/ does not match
IsAlnum(c) == c \in Range(LowerCase) \cup Range(UpperCase) \cup Range(DigitChars)

\* .replace(/[^a-zA-Z0-9]/g, '')
ReplaceNonAlnum(s) == SelectSeq(s, IsAlnum)

\* .substring(0, n)
Substring0(s, n) == SubSeq(s, 1, IF Len(s) < n THEN Len(s) ELSE n)

ToUpperChar(c) ==
    IF c \in Range(LowerCase)
    THEN UpperCase[CHOOSE k \in DOMAIN LowerCase : LowerCase[k] = c]
    ELSE c

\* .toUpperCase(), on the characters that survive the pattern
ToUpperCase(s) == [k \in DOMAIN s |-> ToUpperChar(s[k])]

ShortNameLen == 10

ShortNameCutFirst(locationDescription) ==
    ToUpperCase(ReplaceNonAlnum(Substring0(locationDescription, ShortNameLen)))

ShortName(locationDescription) ==
    ToUpperCase(Substring0(ReplaceNonAlnum(locationDescription), ShortNameLen))

(***************************************************************************)
(* The single-tool build: store_inventory_item                             *)
(***************************************************************************)

Last(v) == IF v.type = "array" /\ Len(v.items) > 0 THEN v.items[Len(v.items)] ELSE Undefined

\* locations[0]
First(v) == IF v.type = "array" /\ Len(v.items) > 0 THEN v.items[1] ELSE Undefined

\* createStockLocation(locationDescription), up to its POST
AutoCreateStockLocation(locationDescription) ==
    Rethrow("Failed to create stock location: ",
        IF locationDescription.type # "string"
        THEN Throw(TypeErrorReplace)
        ELSE Await("createLocation",
                 Request("POST", StockLocationsPath, AuthContentAccept, Undefined,
                     Obj([name |-> locationDescription,
                          short_name |-> Str(ShortName(locationDescription.str)),
                          description |->
                              Str(<<"Auto-created location: ">> \o locationDescription.str)]))))

\* createStockLocation(locationDescription), from the answer to its POST
AutoCreateStockLocationDone(r) ==
    Rethrow("Failed to create stock location: ",
        IF r.ok THEN Return(r.data) ELSE Throw(r.error))

SearchLocationsNoUnwrap(data) == data

\* searchResponse.data.data || searchResponse.data
SearchLocations(data) == Or(Get(data, "data"), data)

\* findOrCreateStockLocation(locationDescription), up to its GET
FindOrCreateStockLocation(locationDescription) ==
    Await("findSearch",
        Request("GET", StockLocationsPath, AuthAccept,
                Obj([search |-> locationDescription]), Undefined))

FindOrCreateStockLocationFoundFallback(locationDescription, r) ==
    Rethrow("Failed to find stock location: ",
        IF ~r.ok THEN AutoCreateStockLocation(locationDescription)
        ELSE IF r.data \in {Undefined, Null} THEN Throw(TypeErrorReadData)
        ELSE LET locations == SearchLocations(r.data)
             IN  IF Truthy(locations) /\ GreaterThanZero(Length(locations))
                 THEN Return(First(locations))
                 ELSE AutoCreateStockLocation(locationDescription))

\* findOrCreateStockLocation, from the answer to its GET
FindOrCreateStockLocationFound(locationDescription, r) ==
    Rethrow("Failed to find stock location: ",
        IF ~r.ok THEN Throw(r.error)
        ELSE IF r.data \in {Undefined, Null} THEN Throw(TypeErrorReadData)
        ELSE LET locations == SearchLocations(r.data)
             IN  IF Truthy(locations) /\ GreaterThanZero(Length(locations))
                 THEN Return(First(locations))
                 ELSE AutoCreateStockLocation(locationDescription))

\* findOrCreateStockLocation, from the answer to the POST of the location
FindOrCreateStockLocationCreated(r) ==
    Rethrow("Failed to find stock location: ", AutoCreateStockLocationDone(r))

StoreItemDataArgId(args, stockLocation) ==
    Obj([name |-> Get(args, "item_name"),
         stock_location_id |-> Get(args, "stock_location_id"),
         position |-> Get(args, "position"),
         description |-> Get(args, "description"),
         quantity |-> Get(args, "quantity"),
         unit_price |-> Get(args, "unit_price"),
         unit |-> Get(args, "unit")])

\* storeInventoryItem, step 2 up to the POST of the item
StoreItemData(args, stockLocation) ==
    Obj([name |-> Get(args, "item_name"),
         stock_location_id |-> Get(stockLocation, "id"),
         position |-> Get(args, "position"),
         description |-> Get(args, "description"),
         quantity |-> Get(args, "quantity"),
         unit_price |-> Get(args, "unit_price"),
         unit |-> Get(args, "unit")])

\* storeInventoryItem, once findOrCreateStockLocation has settled or suspended
StoreInventoryItemResolved(args, found) ==
    Rethrow("Failed to store inventory item: ",
        IF found.kind = "return" /\ found.value \in {Undefined, Null}
        THEN Throw(TypeErrorReadId)
        ELSE IF found.kind = "return"
        THEN Await("storeItem",
                 Request("POST", InventoryItemsPath, AuthContentAccept, Undefined,
                         StoreItemData(args, found.value)))
        ELSE found)

\* storeInventoryItem(args), up to the first await
StoreInventoryItem(args) ==
    IF args \in {Undefined, Null}
    THEN Throw(TypeErrorDestructure)
    ELSE StoreInventoryItemResolved(args,
             FindOrCreateStockLocation(Get(args, "location_description")))

\* storeInventoryItem, from the answer to the POST of the item
StoreInventoryItemDone(args, stockLocation, r) ==
    Rethrow("Failed to store inventory item: ",
        IF r.ok
        THEN Return(TextContent(
                 <<Lit("Successfully stored \"")>> \o TemplateString(Get(args, "item_name"))
                 \o <<Lit("\" in location \"")>> \o TemplateString(Get(stockLocation, "name"))
                 \o <<Lit("\" (ID: ")>> \o TemplateString(Get(stockLocation, "id"))
                 \o <<Lit("). Item details: "), Json(r.data)>>))
        ELSE Throw(r.error))

(***************************************************************************)
(* The six-tool build and the three-tool build.  The operations the two    *)
(* builds share have the same code in both.                                *)
(***************************************************************************)

\* const params = {}; if (search) params.search = search
SearchParams(search) ==
    IF Truthy(search) THEN Obj([search |-> search]) ELSE EmptyObj

\* ${search ? ` matching "${search}"` : ''}
Matching(search) ==
    IF Truthy(search)
    THEN <<Lit(" matching \"")>> \o TemplateString(search) \o <<Lit("\"")>>
    ELSE <<>>

\* getStockLocations(search), up to its GET
GetStockLocations(search) ==
    Rethrow("Failed to get stock locations: ",
        Await("getStockLocations",
            Request("GET", StockLocationsPath, AuthAccept, SearchParams(search), Undefined)))

\* the listing both get tools return
Listing(what, search, r) ==
    IF ~r.ok THEN Throw(r.error)
    ELSE IF r.data \in {Undefined, Null} THEN Throw(TypeErrorReadData)
    ELSE LET found == SearchLocations(r.data)
         IN  Return(TextContent(
                 <<Lit("Found ")>> \o TemplateString(Length(found))
                 \o <<Lit(what)>> \o Matching(search)
                 \o <<Lit(":\n"), Json(found)>>))

\* getStockLocations, from the answer to its GET
GetStockLocationsDone(search, r) ==
    Rethrow("Failed to get stock locations: ", Listing(" stock locations", search, r))

\* getInventoryItems(search), up to its GET
GetInventoryItems(search) ==
    Rethrow("Failed to get inventory items: ",
        Await("getInventoryItems",
            Request("GET", InventoryItemsPath, AuthAccept, SearchParams(search), Undefined)))

\* getInventoryItems, from the answer to its GET
GetInventoryItemsDone(search, r) ==
    Rethrow("Failed to get inventory items: ", Listing(" inventory items", search, r))

\* !args.name || !args.short_name
CreateStockLocationInvalid(args) ==
    ~Truthy(Get(args, "name")) \/ ~Truthy(Get(args, "short_name"))

\* createStockLocation(args), up to its POST
CreateStockLocation(args) ==
    Rethrow("Failed to create stock location: ",
        IF CreateStockLocationInvalid(args)
        THEN Throw(Error(<<Lit("name"), Lit(" and "), Lit("short_name"),
                           Lit(" are required to create a stock location")>>))
        ELSE Await("createStockLocation",
                 Request("POST", StockLocationsPath, AuthContentAccept, Undefined,
                     Obj([name |-> Get(args, "name"),
                          short_name |-> Get(args, "short_name"),
                          description |-> Get(args, "description")]))))

\* createStockLocation(args), from the answer to its POST
CreateStockLocationDone(r) ==
    Rethrow("Failed to create stock location: ",
        IF r.ok
        THEN Return(TextContent(<<Lit("Successfully created stock location: "), Json(r.data)>>))
        ELSE Throw(r.error))

CreateInventoryItemInvalidNameOnly(args) == ~Truthy(Get(args, "name"))

\* !args.name || !args.stock_location_id
CreateInventoryItemInvalid(args) ==
    ~Truthy(Get(args, "name")) \/ ~Truthy(Get(args, "stock_location_id"))

\* the properties the inputSchema of create_inventory_item declares
CreateInventoryItemProperties(v) ==
    {"name", "stock_location_id", "position", "quantity", "description",
     "unit_price", "unit"}
    \cup (IF v = "full"
          THEN {"sku", "reorder_point", "reorder_quantity", "min_stock_level",
                "max_stock_level", "expiration_date"}
          ELSE {})

\* the itemData of createInventoryItem
CreateItemData(args) ==
    Obj([name |-> Get(args, "name"),
         stock_location_id |-> Get(args, "stock_location_id"),
         position |-> Get(args, "position"),
         description |-> Get(args, "description"),
         quantity |-> Get(args, "quantity"),
         unit_price |-> Get(args, "unit_price"),
         unit |-> Get(args, "unit")])

\* createInventoryItem(args), up to its POST
CreateInventoryItem(args) ==
    Rethrow("Failed to create inventory item: ",
        IF CreateInventoryItemInvalid(args)
        THEN Throw(Error(<<Lit("name"), Lit(" and "), Lit("stock_location_id"),
                           Lit(" are required to create an inventory item")>>))
        ELSE Await("createInventoryItem",
                 Request("POST", InventoryItemsPath, AuthContentAccept, Undefined,
                         CreateItemData(args))))

\* createInventoryItem(args), from the answer to its POST
CreateInventoryItemDone(r) ==
    Rethrow("Failed to create inventory item: ",
        IF r.ok
        THEN Return(TextContent(<<Lit("Successfully created inventory item: "), Json(r.data)>>))
        ELSE Throw(r.error))

\* !args.item_id
ItemIdInvalid(args) == ~Truthy(Get(args, "item_id"))

\* const { item_id, ...updateData } = args, then the filter on undefined
CleanUpdateData(args) ==
    LET updateData == [k \in DOMAIN args.props \ {"item_id"} |-> args.props[k]]
    IN  Obj([k \in {j \in DOMAIN updateData : updateData[j] # Undefined} |->
                updateData[k]])

\* `/inventory-items/${item_id}`
ItemPath(item_id) == <<Lit("/inventory-items/")>> \o TemplateString(item_id)

\* updateInventoryItem(args), up to its PUT
UpdateInventoryItem(args) ==
    Rethrow("Failed to update inventory item: ",
        IF ItemIdInvalid(args)
        THEN Throw(Error(<<Lit("item_id"),
                           Lit(" is required to update an inventory item")>>))
        ELSE Await("updateInventoryItem",
                 Request("PUT", ItemPath(Get(args, "item_id")), AuthContentAccept,
                         Undefined, CleanUpdateData(args))))

\* updateInventoryItem(args), from the answer to its PUT
UpdateInventoryItemDone(args, r) ==
    Rethrow("Failed to update inventory item: ",
        IF r.ok
        THEN Return(TextContent(
                 <<Lit("Successfully updated inventory item (ID: ")>>
                 \o TemplateString(Get(args, "item_id"))
                 \o <<Lit("): "), Json(r.data)>>))
        ELSE Throw(r.error))

\* deleteInventoryItem(args), up to its DELETE
DeleteInventoryItem(args) ==
    Rethrow("Failed to delete inventory item: ",
        IF ItemIdInvalid(args)
        THEN Throw(Error(<<Lit("item_id"),
                           Lit(" is required to delete an inventory item")>>))
        ELSE Await("deleteInventoryItem",
                 Request("DELETE", ItemPath(Get(args, "item_id")), AuthAccept,
                         Undefined, Undefined)))

\* deleteInventoryItem(args), from the answer to its DELETE
DeleteInventoryItemDone(args, r) ==
    Rethrow("Failed to delete inventory item: ",
        IF r.ok
        THEN Return(TextContent(
                 <<Lit("Successfully deleted inventory item with ID: ")>>
                 \o TemplateString(Get(args, "item_id"))))
        ELSE Throw(r.error))

(***************************************************************************)
(* The tool catalogs and the dispatch of the call-tool handlers            *)
(***************************************************************************)
Variants == {"store", "full", "basic"}

\* the names the list-tools handler of each build returns
ListTools(v) ==
    CASE v = "store" -> {"store_inventory_item"}
      [] v = "full" -> {"get_stock_locations", "create_stock_location",
                        "get_inventory_items", "create_inventory_item",
                        "update_inventory_item", "delete_inventory_item"}
      [] v = "basic" -> {"get_stock_locations", "create_stock_location",
                         "create_inventory_item"}

\* the required list of the inputSchema of a tool
Required(tool) ==
    CASE tool = "store_inventory_item" -> {"item_name", "location_description"}
      [] tool = "create_stock_location" -> {"name", "short_name"}
      [] tool = "create_inventory_item" -> {"name", "stock_location_id"}
      [] tool = "update_inventory_item" -> {"item_id"}
      [] tool = "delete_inventory_item" -> {"item_id"}
      [] OTHER -> {}

UnknownTool(name) == Throw(Error(<<Lit("Unknown tool: "), Lit(name)>>))

\* args || {}
OrEmpty(args) == Or(args, EmptyObj)

\* the switch of the single-tool build
StoreSwitch(name, args) ==
    CASE name = "store_inventory_item" -> StoreInventoryItem(args)
      [] OTHER -> UnknownTool(name)

FullSwitchNoDelete(name, args) ==
    CASE name = "get_stock_locations" -> GetStockLocations(OptGet(args, "search"))
      [] name = "create_stock_location" -> CreateStockLocation(OrEmpty(args))
      [] name = "get_inventory_items" -> GetInventoryItems(OptGet(args, "search"))
      [] name = "create_inventory_item" -> CreateInventoryItem(OrEmpty(args))
      [] name = "update_inventory_item" -> UpdateInventoryItem(OrEmpty(args))
      [] OTHER -> UnknownTool(name)

\* the switch of the six-tool build
FullSwitch(name, args) ==
    CASE name = "get_stock_locations" -> GetStockLocations(OptGet(args, "search"))
      [] name = "create_stock_location" -> CreateStockLocation(OrEmpty(args))
      [] name = "get_inventory_items" -> GetInventoryItems(OptGet(args, "search"))
      [] name = "create_inventory_item" -> CreateInventoryItem(OrEmpty(args))
      [] name = "update_inventory_item" -> UpdateInventoryItem(OrEmpty(args))
      [] name = "delete_inventory_item" -> DeleteInventoryItem(OrEmpty(args))
      [] OTHER -> UnknownTool(name)

\* the switch of the three-tool build
BasicSwitch(name, args) ==
    CASE name = "get_stock_locations" -> GetStockLocations(OptGet(args, "search"))
      [] name = "create_stock_location" -> CreateStockLocation(OrEmpty(args))
      [] name = "create_inventory_item" -> CreateInventoryItem(OrEmpty(args))
      [] OTHER -> UnknownTool(name)

Switch(v, name, args) ==
    CASE v = "store" -> StoreSwitch(name, args)
      [] v = "full" -> FullSwitch(name, args)
      [] v = "basic" -> BasicSwitch(name, args)

CatchAtDispatchNoPrefix(e) == TextContent(e.message)

\* the catch of the call-tool handler
CatchAtDispatch(e) == TextContent(<<Lit("Error: ")>> \o e.message)

(***************************************************************************)
(* Inputs: tool names and arguments of the callers                         *)
(***************************************************************************)
DescAlphabet == {"a", "Z", "7", " ", "-"}

Descriptions ==
    UNION {[1..n -> DescAlphabet] : n \in 0..MaxDescLen}
    \cup { <<"s", "h", "e", "l", "f", " ", "A", " ", "i", "n", " ", "t", "h", "e", " ",
             "s", "t", "o", "r", "a", "g", "e", " ", "r", "o", "o", "m">>,
           <<"a", "1", "-", "b", "2", "-", "c", "3", "-", "d", "4", "-", "e", "5",
             "-", "f", "6">>,
           <<"0", "1", "2", "3", "4", "5", "6", "7", "8", "9">>,
           <<"c", "a", "f", "é", " ", "#", "2">> }

ToolNames == UNION {ListTools(v) : v \in Variants} \cup {"bogus"}

\* the argument names the callers use with a tool
ArgFields(tool) ==
    CASE tool = "store_inventory_item" -> {"item_name", "location_description", "quantity"}
      [] tool \in {"get_stock_locations", "get_inventory_items"} -> {"search"}
      [] tool = "create_stock_location" -> {"name", "short_name", "description"}
      [] tool = "create_inventory_item" -> {"name", "stock_location_id", "quantity", "sku"}
      [] tool = "update_inventory_item" -> {"item_id", "quantity", "description"}
      [] tool = "delete_inventory_item" -> {"item_id"}
      [] OTHER -> {}

\* the values the callers give an argument
ArgValues(k, d) ==
    CASE k = "item_name" -> {Str(<<"w">>)}
      [] k = "location_description" -> {Str(d)}
      [] k = "search" -> {Str(<<>>), Str(<<"w">>)}
      [] k = "name" -> {Str(<<>>), Str(<<"w">>)}
      [] k = "short_name" -> {Str(<<>>), Str(<<"W">>)}
      [] k = "description" -> {Undefined, Str(<<"d">>)}
      [] k = "stock_location_id" -> {Num(0), Num(7)}
      [] k = "item_id" -> {Num(0), Num(5)}
      [] k = "quantity" -> {Undefined, Null, Num(10)}
      [] k = "sku" -> {Str(<<"s">>)}

\* the arguments of a call: absent, or an object with some of the fields
ArgsFor(tool, d) ==
    {Undefined} \cup
    UNION { { Obj(f) : f \in {g \in [D -> UNION {ArgValues(k, d) : k \in D}] :
                                \A k \in D : g[k] \in ArgValues(k, d)} }
            : D \in SUBSET ArgFields(tool) }

(***************************************************************************)
(* The backend                                                             *)
(***************************************************************************)
Ok(data) == [ok |-> TRUE, data |-> data]
Fail(e) == [ok |-> FALSE, error |-> e]

Failures == {Fail(e) : e \in AxiosErrors}

SeedLocation ==
    Obj([id |-> Num(1), name |-> Str(<<"m", "a", "i", "n">>),
         short_name |-> Str(<<"M", "A", "I", "N">>), description |-> Null])

SampleItem ==
    Obj([id |-> Num(3), name |-> Str(<<"w">>), stock_location_id |-> Num(1)])

InjectiveSeqs(S) ==
    {s \in UNION {[1..n -> S] : n \in 0..Cardinality(S)} :
        \A a, b \in DOMAIN s : a # b => s[a] # s[b]}

\* the two shapes of a listing, and an empty body
Listings(seqs) ==
    {Ok(Arr(s)) : s \in seqs} \cup {Ok(Obj([data |-> Arr(s)])) : s \in seqs}
    \cup {Ok(Null)}

\* GET /stock-locations: some of the locations held, in some order, among
\* them every location whose name is the search text
SearchAnswers(held, req) ==
    LET search == Get(Wire(req.params), "search")
    IN  Listings({s \in InjectiveSeqs(Range(held)) :
                    \A l \in Range(held) : Get(l, "name") = search => l \in Range(s)})
        \cup Failures

\* POST /stock-locations: the location is stored under a fresh id
CreatedLocation(held, req) ==
    Obj([id |-> Num(Len(held) + 1)] @@ Wire(req.data).props)

CreateAnswers(held, req) ==
    (IF Len(held) < MaxLocations THEN {Ok(CreatedLocation(held, req))} ELSE {})
    \cup Failures

\* GET /inventory-items
ItemAnswers == Listings({<<>>, <<SampleItem>>}) \cup Failures

\* POST /inventory-items and PUT /inventory-items/{id}: the item comes back
EchoAnswers(req) == {Ok(Obj([id |-> Num(4)] @@ Wire(req.data).props))} \cup Failures

\* DELETE /inventory-items/{id}: no body
DeleteAnswers == {Ok(Str(<<>>))} \cup Failures

(***************************************************************************)
(* State                                                                   *)
(***************************************************************************)
VARIABLES
    variant,        \* the build that is running
    desc,           \* the location description the callers of this run use
    locations,      \* backend: the stock locations held, in creation order
    pc,             \* per invocation: idle, the await it is suspended at, done
    name,           \* per invocation: request.params.name
    args,           \* per invocation: request.params.arguments
    http,           \* per invocation: the requests handed to axios so far
    received,       \* per invocation: the answers to those requests so far
    stockLocation,  \* per invocation: the local of storeInventoryItem
    caught,         \* per invocation: the error caught by the handler, if any
    result          \* per invocation: what the handler returned

vars == <<variant, desc, locations, pc, name, args, http, received,
          stockLocation, caught, result>>

NoResult == [type |-> "none"]

Init ==
    /\ variant \in Variants
    /\ desc \in (IF variant = "store" THEN Descriptions ELSE {<<>>})
    /\ locations \in {<<>>, <<SeedLocation>>}
    /\ pc = [i \in Inv |-> "idle"]
    /\ name = [i \in Inv |-> "none"]
    /\ args = [i \in Inv |-> Undefined]
    /\ http = [i \in Inv |-> <<>>]
    /\ received = [i \in Inv |-> <<>>]
    /\ stockLocation = [i \in Inv |-> Undefined]
    /\ caught = [i \in Inv |-> <<>>]
    /\ result = [i \in Inv |-> NoResult]

AdvanceHang(i, step) ==
    /\ pc' = [pc EXCEPT ![i] = CASE step.kind = "await" -> step.label
                                 [] step.kind = "throw" -> "hung"
                                 [] OTHER -> "done"]
    /\ http' = [http EXCEPT ![i] =
                   IF step.kind = "await" THEN Append(@, step.request) ELSE @]
    /\ caught' = [caught EXCEPT ![i] =
                     IF step.kind = "throw" THEN <<step.error>> ELSE @]
    /\ result' = [result EXCEPT ![i] =
                     IF step.kind = "return" THEN step.value ELSE @]

\* the handler runs a step of invocation i: it suspends at an await, returns
\* the value of the operation, or catches what the operation threw
Advance(i, step) ==
    /\ pc' = [pc EXCEPT ![i] = IF step.kind = "await" THEN step.label ELSE "done"]
    /\ http' = [http EXCEPT ![i] =
                   IF step.kind = "await" THEN Append(@, step.request) ELSE @]
    /\ caught' = [caught EXCEPT ![i] =
                     IF step.kind = "throw" THEN <<step.error>> ELSE @]
    /\ result' = [result EXCEPT ![i] =
                     CASE step.kind = "return" -> step.value
                       [] step.kind = "throw" -> CatchAtDispatch(step.error)
                       [] OTHER -> @]

Pending(i) == http[i][Len(http[i])]

\* the last answer an invocation got
Answered(rs) == rs[Len(rs)]

\* in this specification the callers wait for the envelope of a call
\* before they make the next one
HostAdmits(i) == \A j \in Inv : pc[j] = "idle"

\* the call-tool handler, up to the first await of the operation
CallToolRequest(i) ==
    /\ pc[i] = "idle"
    /\ HostAdmits(i)
    /\ \E nm \in ToolNames :
         \E a \in ArgsFor(nm, desc) :
            /\ name' = [name EXCEPT ![i] = nm]
            /\ args' = [args EXCEPT ![i] = a]
            /\ Advance(i, Switch(variant, nm, a))
    /\ UNCHANGED <<variant, desc, locations, received, stockLocation>>

FindSearchAnswerShared(i) ==
    /\ pc[i] = "findSearch"
    /\ \E r \in SearchAnswers(locations, Pending(i)) :
         LET found == FindOrCreateStockLocationFound(
                          Get(args[i], "location_description"), r)
         IN  /\ Advance(i, StoreInventoryItemResolved(args[i], found))
             /\ stockLocation' = IF found.kind = "return"
                                 THEN [j \in Inv |-> found.value]
                                 ELSE stockLocation
             /\ received' = [received EXCEPT ![i] = Append(@, r)]
    /\ UNCHANGED <<variant, desc, locations, name, args>>

\* store_inventory_item: the search is answered
FindSearchAnswer(i) ==
    /\ pc[i] = "findSearch"
    /\ \E r \in SearchAnswers(locations, Pending(i)) :
         LET found == FindOrCreateStockLocationFound(
                          Get(args[i], "location_description"), r)
         IN  /\ Advance(i, StoreInventoryItemResolved(args[i], found))
             /\ stockLocation' = [stockLocation EXCEPT ![i] =
                                     IF found.kind = "return" THEN found.value ELSE @]
             /\ received' = [received EXCEPT ![i] = Append(@, r)]
    /\ UNCHANGED <<variant, desc, locations, name, args>>

\* store_inventory_item: the POST of the new location is answered
CreateLocationAnswer(i) ==
    /\ pc[i] = "createLocation"
    /\ \E r \in CreateAnswers(locations, Pending(i)) :
         LET found == FindOrCreateStockLocationCreated(r)
         IN  /\ locations' = IF r.ok THEN Append(locations, r.data) ELSE locations
             /\ Advance(i, StoreInventoryItemResolved(args[i], found))
             /\ stockLocation' = [stockLocation EXCEPT ![i] =
                                     IF found.kind = "return" THEN found.value ELSE @]
             /\ received' = [received EXCEPT ![i] = Append(@, r)]
    /\ UNCHANGED <<variant, desc, name, args>>

StoreItemAnswerRollback(i) ==
    /\ pc[i] = "storeItem"
    /\ \E r \in EchoAnswers(Pending(i)) :
         /\ Advance(i, StoreInventoryItemDone(args[i], stockLocation[i], r))
         /\ received' = [received EXCEPT ![i] = Append(@, r)]
         /\ locations' = IF ~r.ok /\ Len(http[i]) = 3
                         THEN SelectSeq(locations, LAMBDA l : l # stockLocation[i])
                         ELSE locations
    /\ UNCHANGED <<variant, desc, name, args, stockLocation>>

\* store_inventory_item: the POST of the item is answered
StoreItemAnswer(i) ==
    /\ pc[i] = "storeItem"
    /\ \E r \in EchoAnswers(Pending(i)) :
         /\ Advance(i, StoreInventoryItemDone(args[i], stockLocation[i], r))
         /\ received' = [received EXCEPT ![i] = Append(@, r)]
    /\ UNCHANGED <<variant, desc, locations, name, args, stockLocation>>

\* get_stock_locations: the GET is answered
GetStockLocationsAnswer(i) ==
    /\ pc[i] = "getStockLocations"
    /\ \E r \in SearchAnswers(locations, Pending(i)) :
         /\ Advance(i, GetStockLocationsDone(OptGet(args[i], "search"), r))
         /\ received' = [received EXCEPT ![i] = Append(@, r)]
    /\ UNCHANGED <<variant, desc, locations, name, args, stockLocation>>

\* create_stock_location: the POST is answered
CreateStockLocationAnswer(i) ==
    /\ pc[i] = "createStockLocation"
    /\ \E r \in CreateAnswers(locations, Pending(i)) :
         /\ locations' = IF r.ok THEN Append(locations, r.data) ELSE locations
         /\ Advance(i, CreateStockLocationDone(r))
         /\ received' = [received EXCEPT ![i] = Append(@, r)]
    /\ UNCHANGED <<variant, desc, name, args, stockLocation>>

\* get_inventory_items: the GET is answered
GetInventoryItemsAnswer(i) ==
    /\ pc[i] = "getInventoryItems"
    /\ \E r \in ItemAnswers :
         /\ Advance(i, GetInventoryItemsDone(OptGet(args[i], "search"), r))
         /\ received' = [received EXCEPT ![i] = Append(@, r)]
    /\ UNCHANGED <<variant, desc, locations, name, args, stockLocation>>

\* create_inventory_item: the POST is answered
CreateInventoryItemAnswer(i) ==
    /\ pc[i] = "createInventoryItem"
    /\ \E r \in EchoAnswers(Pending(i)) :
         /\ Advance(i, CreateInventoryItemDone(r))
         /\ received' = [received EXCEPT ![i] = Append(@, r)]
    /\ UNCHANGED <<variant, desc, locations, name, args, stockLocation>>

\* update_inventory_item: the PUT is answered
UpdateInventoryItemAnswer(i) ==
    /\ pc[i] = "updateInventoryItem"
    /\ \E r \in EchoAnswers(Pending(i)) :
         /\ Advance(i, UpdateInventoryItemDone(OrEmpty(args[i]), r))
         /\ received' = [received EXCEPT ![i] = Append(@, r)]
    /\ UNCHANGED <<variant, desc, locations, name, args, stockLocation>>

\* delete_inventory_item: the DELETE is answered
DeleteInventoryItemAnswer(i) ==
    /\ pc[i] = "deleteInventoryItem"
    /\ \E r \in DeleteAnswers :
         /\ Advance(i, DeleteInventoryItemDone(OrEmpty(args[i]), r))
         /\ received' = [received EXCEPT ![i] = Append(@, r)]
    /\ UNCHANGED <<variant, desc, locations, name, args, stockLocation>>

\* the envelope goes back to the caller; nothing of the invocation is kept
Respond(i) ==
    /\ pc[i] = "done"
    /\ pc' = [pc EXCEPT ![i] = "idle"]
    /\ name' = [name EXCEPT ![i] = "none"]
    /\ args' = [args EXCEPT ![i] = Undefined]
    /\ http' = [http EXCEPT ![i] = <<>>]
    /\ received' = [received EXCEPT ![i] = <<>>]
    /\ stockLocation' = [stockLocation EXCEPT ![i] = Undefined]
    /\ caught' = [caught EXCEPT ![i] = <<>>]
    /\ result' = [result EXCEPT ![i] = NoResult]
    /\ UNCHANGED <<variant, desc, locations>>

Next ==
    \E i \in Inv :
        \/ CallToolRequest(i)
        \/ FindSearchAnswer(i)
        \/ CreateLocationAnswer(i)
        \/ StoreItemAnswer(i)
        \/ GetStockLocationsAnswer(i)
        \/ CreateStockLocationAnswer(i)
        \/ GetInventoryItemsAnswer(i)
        \/ CreateInventoryItemAnswer(i)
        \/ UpdateInventoryItemAnswer(i)
        \/ DeleteInventoryItemAnswer(i)
        \/ Respond(i)

Spec == Init /\ [][Next]_vars

(***************************************************************************)
(* Concurrent invocations: the host dispatches a call while others are     *)
(* suspended at their HTTP calls                                           *)
(***************************************************************************)
\* the descriptions the concurrent callers name
ConcDescriptions == {<<"a">>}

\* the arguments of the concurrent callers: every field, with a value
ConcArgsFor(tool, d) ==
    {a \in ArgsFor(tool, d) :
        /\ a.type = "object"
        /\ DOMAIN a.props = ArgFields(tool)
        /\ \A k \in DOMAIN a.props : Truthy(a.props[k])}

\* the answers of the backend to the concurrent callers: a bare listing, the
\* entity, an empty body, or no response at all
ConcAnswer(r) ==
    IF r.ok
    THEN \/ r.data.type = "array"
         \/ r.data.type = "object" /\ "id" \in DOMAIN r.data.props
         \/ r.data = Str(<<>>)
    ELSE r.error.response = Undefined

InitConc ==
    /\ Init
    /\ variant = "store" => desc \in ConcDescriptions

\* the call-tool handler, up to the first await of the operation
CallToolRequestConc(i) ==
    /\ pc[i] = "idle"
    /\ \E nm \in ListTools(variant) :
         \E a \in ConcArgsFor(nm, desc) :
            /\ name' = [name EXCEPT ![i] = nm]
            /\ args' = [args EXCEPT ![i] = a]
            /\ Advance(i, Switch(variant, nm, a))
    /\ UNCHANGED <<variant, desc, locations, received, stockLocation>>

\* an HTTP call of invocation i completes
AnswerConc(i) ==
    /\ \/ FindSearchAnswer(i)
       \/ CreateLocationAnswer(i)
       \/ StoreItemAnswer(i)
       \/ GetStockLocationsAnswer(i)
       \/ CreateStockLocationAnswer(i)
       \/ GetInventoryItemsAnswer(i)
       \/ CreateInventoryItemAnswer(i)
       \/ UpdateInventoryItemAnswer(i)
       \/ DeleteInventoryItemAnswer(i)
    /\ ConcAnswer(Answered(received'[i]))

NextConc ==
    \E i \in Inv :
        \/ CallToolRequestConc(i)
        \/ AnswerConc(i)
        \/ Respond(i)

SpecConc == InitConc /\ [][NextConc]_vars

\* the backend starts empty
InitLive == InitConc /\ locations = <<>>

\* each of the invocations is dispatched at some time, or never
NextLive ==
    \E i \in Inv :
        \/ CallToolRequestConc(i)
        \/ AnswerConc(i)

\* every HTTP call eventually completes
SpecLive == InitLive /\ [][NextLive]_vars /\ \A i \in Inv : WF_vars(AnswerConc(i))

(***************************************************************************)
(* Properties                                                              *)
(***************************************************************************)
IsEnvelope(r) ==
    /\ DOMAIN r = {"content"}
    /\ Len(r.content) = 1
    /\ DOMAIN r.content[1] = {"type", "text"}
    /\ r.content[1].type = "text"

TextOf(i) == result[i].content[1].text

StartsWithError(text) == Len(text) > 0 /\ text[1] = Lit("Error: ")

Started(i) == pc[i] # "idle"
Done(i) == pc[i] = "done"

\* C1: every finished invocation has returned an envelope with exactly one
\* text item; the text is "Error: " followed by the message of the error
\* exactly when an error was raised, and no result exists before the end.
C1_ErrorsBecomeEnvelopes ==
    \A i \in Inv :
        /\ Done(i) =>
             /\ IsEnvelope(result[i])
             /\ (caught[i] # <<>>) <=> StartsWithError(TextOf(i))
             /\ caught[i] # <<>> =>
                    TextOf(i) = <<Lit("Error: ")>> \o caught[i][1].message
        /\ ~Done(i) => result[i] = NoResult /\ caught[i] = <<>>

\* an error raised after an HTTP call has ended in an error envelope
C1_Witness ==
    \E i \in Inv :
        /\ Done(i) /\ caught[i] # <<>> /\ Len(http[i]) = 2
        /\ StartsWithError(TextOf(i))

(***************************************************************************)
(* The find-or-create flow of store_inventory_item                         *)
(***************************************************************************)
IsListing(body) ==
    \/ body.type = "array"
    \/ body.type = "object" /\ DOMAIN body.props = {"data"}
                            /\ body.props.data.type = "array"

\* the sequence of locations a listing carries, whatever its shape
Contents(body) == IF body.type = "array" THEN body.items ELSE body.props.data.items

\* the same contents in the other shape
OtherShape(body) ==
    IF body.type = "array" THEN Obj([data |-> body]) ELSE body.props.data

IsLocationPost(req) ==
    req.method = "POST" /\ req.url = <<API_BASE_URL, Lit("/stock-locations")>>

IsItemPost(req) ==
    req.method = "POST" /\ req.url = <<API_BASE_URL, Lit("/inventory-items")>>

LocationPosts(i) == {k \in DOMAIN http[i] : IsLocationPost(http[i][k])}

\* invocation i is a store_inventory_item whose search was answered with a
\* listing
Searched(i) ==
    /\ variant = "store" /\ name[i] = "store_inventory_item"
    /\ Len(received[i]) >= 1
    /\ received[i][1].ok
    /\ IsListing(received[i][1].data)

SearchContents(i) == Contents(received[i][1].data)

DescriptionOf(i) == Get(args[i], "location_description")

\* C2: when the search returns a non-empty sequence, the location of the
\* invocation is the first element of the sequence and the invocation issues
\* no POST to /stock-locations.
C2_FirstMatchNoCreate ==
    \A i \in Inv :
        Searched(i) /\ Len(SearchContents(i)) > 0 =>
            /\ stockLocation[i] = SearchContents(i)[1]
            /\ LocationPosts(i) = {}

\* a search that returned two locations, the invocation went on with the first
C2_Witness ==
    \E i \in Inv :
        /\ Searched(i) /\ Len(SearchContents(i)) = 2
        /\ pc[i] = "storeItem"
        /\ stockLocation[i] = SearchContents(i)[1]

\* the short name as the specification words it: uppercase of the
\* description without its non-alphanumeric characters, cut to 10
SpecShortName(d) == Substring0(ToUpperCase(ReplaceNonAlnum(d)), 10)

\* C3: when the search returns an empty sequence for a description D, the
\* invocation issues exactly one POST to /stock-locations, right after the
\* search, with name D, description "Auto-created location: " + D and the
\* short name derived from D (empty when D has no ASCII letter or digit);
\* the location of the invocation is the one the backend returns.
C3_CreateWhenNoMatch ==
    \A i \in Inv :
        Searched(i) /\ Len(SearchContents(i)) = 0 /\ DescriptionOf(i).type = "string" =>
            LET D == DescriptionOf(i).str
            IN  /\ LocationPosts(i) = {2}
                /\ http[i][2].data =
                       Obj([name |-> Str(D),
                            short_name |-> Str(SpecShortName(D)),
                            description |-> Str(<<"Auto-created location: ">> \o D)])
                /\ (\A k \in DOMAIN D : ~IsAlnum(D[k])) => http[i][2].data.props.short_name = Str(<<>>)
                /\ Len(received[i]) >= 2 /\ received[i][2].ok =>
                       stockLocation[i] = received[i][2].data
                /\ Len(received[i]) = 1 => pc[i] = "createLocation"

\* the example of the specification: "shelf A in the storage room" was
\* created with the short name SHELFAINTH
C3_Witness ==
    \E i \in Inv :
        /\ Searched(i) /\ Len(SearchContents(i)) = 0
        /\ DescriptionOf(i).type = "string"
        /\ Len(DescriptionOf(i).str) = 27
        /\ pc[i] = "storeItem"
        /\ Get(stockLocation[i], "short_name") =
               Str(<<"S", "H", "E", "L", "F", "A", "I", "N", "T", "H">>)
        /\ stockLocation[i] \in Range(locations)

\* C4: whatever the shape of the listing the search returned, the invocation
\* did what the resolver does with the same contents in the other shape:
\* the same branch, the same location, the same next request or error.
C4_ShapeTransparency ==
    \A i \in Inv :
        Searched(i) =>
            LET other == Ok(OtherShape(received[i][1].data))
                found == FindOrCreateStockLocationFound(DescriptionOf(i), other)
                step == StoreInventoryItemResolved(args[i], found)
            IN  /\ step.kind = "await" => Len(http[i]) >= 2 /\ http[i][2] = step.request
                /\ step.kind = "throw" =>
                       Done(i) /\ Len(http[i]) = 1 /\ result[i] = CatchAtDispatch(step.error)
                /\ found.kind = "return" => stockLocation[i] = found.value
                /\ found.kind # "return" /\ Len(received[i]) = 1 =>
                       stockLocation[i] = Undefined

\* an envelope-shaped listing with a match: the invocation went on to the
\* POST of the item without creating a location
C4_Witness ==
    \E i \in Inv :
        /\ Searched(i)
        /\ received[i][1].data.type = "object"
        /\ Len(SearchContents(i)) > 0
        /\ pc[i] = "storeItem" /\ Len(http[i]) = 2 /\ IsItemPost(http[i][2])

(***************************************************************************)
(* Item creation, validation, routing, update                              *)
(***************************************************************************)

\* the locations the backend returned to invocation i before its request k
ReturnedLocations(i, k) ==
    UNION { IF ~received[i][j].ok THEN {}
            ELSE IF IsListing(received[i][j].data) THEN Range(Contents(received[i][j].data))
            ELSE IF received[i][j].data.type = "object" THEN {received[i][j].data}
            ELSE {}
            : j \in 1..(k - 1) }

PostedLocationId(req) == Get(req.data, "stock_location_id")

\* C5, as claimed: every POST of an item, of any tool, carries the id of a
\* location the backend returned to the same invocation before the POST.
C5_EveryItemPostResolved ==
    \A i \in Inv :
        \A k \in DOMAIN http[i] :
            IsItemPost(http[i][k]) =>
                \E l \in ReturnedLocations(i, k) : PostedLocationId(http[i][k]) = Get(l, "id")

\* C5, amended: the POST of an item by store_inventory_item carries the id
\* of the location of the invocation, which the backend returned to the
\* invocation before the POST and which the backend holds; the POST of an
\* item by create_inventory_item is the first request of its invocation and
\* carries the stock_location_id of the caller as it is.
C5_StoreItemPostResolved ==
    \A i \in Inv :
        \A k \in DOMAIN http[i] :
            IsItemPost(http[i][k]) =>
                /\ name[i] = "store_inventory_item" =>
                       /\ stockLocation[i] \in ReturnedLocations(i, k)
                       /\ stockLocation[i] \in Range(locations)
                       /\ PostedLocationId(http[i][k]) = Get(stockLocation[i], "id")
                /\ name[i] = "create_inventory_item" =>
                       /\ k = 1
                       /\ PostedLocationId(http[i][k]) = Get(args[i], "stock_location_id")

\* store_inventory_item posts the item with the id of the location it has
\* just created
C5_Witness ==
    \E i \in Inv :
        /\ name[i] = "store_inventory_item"
        /\ pc[i] = "storeItem" /\ Len(http[i]) = 3
        /\ IsLocationPost(http[i][2]) /\ IsItemPost(http[i][3])
        /\ PostedLocationId(http[i][3]) = Get(received[i][2].data, "id")

\* argument k is missing from the arguments of invocation i
Missing(i, k) == args[i].type # "object" \/ k \notin DOMAIN args[i].props

SomeMissing(i) == \E k \in Required(name[i]) : Missing(i, k)

\* the invocation ended in an error text that mentions every missing
\* argument, and it issued no request
RejectedUnsent(i) ==
    /\ Done(i)
    /\ IsEnvelope(result[i])
    /\ StartsWithError(TextOf(i))
    /\ \A k \in Required(name[i]) : Missing(i, k) => Lit(k) \in Range(TextOf(i))
    /\ http[i] = <<>>

ValidatedTools ==
    {"create_stock_location", "create_inventory_item",
     "update_inventory_item", "delete_inventory_item"}

\* C6: an invocation of create_stock_location, create_inventory_item,
\* update_inventory_item or delete_inventory_item with a required argument
\* missing ends in an error text that mentions the argument, with no request.
C6_MissingRequiredRejected ==
    \A i \in Inv :
        /\ Started(i)
        /\ name[i] \in ValidatedTools \cap ListTools(variant)
        /\ SomeMissing(i)
        => RejectedUnsent(i)

\* create_inventory_item with a name and no stock_location_id was rejected
C6_Witness ==
    \E i \in Inv :
        /\ name[i] = "create_inventory_item" /\ name[i] \in ListTools(variant)
        /\ ~Missing(i, "name") /\ Truthy(Get(args[i], "name"))
        /\ Missing(i, "stock_location_id")
        /\ RejectedUnsent(i)

\* C7: an invocation of store_inventory_item with item_name or
\* location_description missing ends in an error text that mentions a
\* missing argument, with no request.
C7_StoreValidatesRequired ==
    \A i \in Inv :
        /\ Started(i)
        /\ variant = "store" /\ name[i] = "store_inventory_item"
        /\ SomeMissing(i)
        => /\ Done(i)
           /\ StartsWithError(TextOf(i))
           /\ \E k \in Required(name[i]) : Missing(i, k) /\ Lit(k) \in Range(TextOf(i))
           /\ http[i] = <<>>

\* the error the validation of a tool raises
IsValidationError(e) ==
    Len(e.message) > 0
    /\ e.message[Len(e.message)] \in
         {Lit(" are required to create a stock location"),
          Lit(" are required to create an inventory item"),
          Lit(" is required to update an inventory item"),
          Lit(" is required to delete an inventory item")}

\* C8: an invocation of a catalog tool with every required argument present,
\* whatever its value, raises no validation error and issues its request.
C8_PresentPassesValidation ==
    \A i \in Inv :
        /\ Started(i)
        /\ name[i] \in ListTools(variant)
        /\ ~SomeMissing(i)
        => /\ Len(http[i]) >= 1
           /\ caught[i] # <<>> => ~IsValidationError(caught[i][1])

\* the names the switch of a build routes
Routed(v) == {n \in ToolNames : Switch(v, n, EmptyObj) # UnknownTool(n)}

UnknownToolText(n) == <<Lit("Error: "), Lit("Unknown tool: "), Lit(n)>>

\* C9: the switch of the build routes exactly the names of its catalog; an
\* invocation of a catalog name raises no unknown-tool error, and an
\* invocation of any other name N ends with the text "Error: Unknown tool: N"
\* and no request.
C9_RoutesExactlyTheCatalog ==
    /\ Routed(variant) = ListTools(variant)
    /\ \A i \in Inv :
         Started(i) =>
            /\ name[i] \in ListTools(variant) =>
                   (Done(i) => TextOf(i) # UnknownToolText(name[i]))
            /\ name[i] \notin ListTools(variant) =>
                   /\ Done(i)
                   /\ result[i] = TextContent(UnknownToolText(name[i]))
                   /\ http[i] = <<>>

\* the three-tool build was asked for a tool of the six-tool build
C9_Witness ==
    \E i \in Inv :
        /\ variant = "basic" /\ name[i] = "get_inventory_items"
        /\ Done(i)
        /\ result[i] = TextContent(UnknownToolText("get_inventory_items"))

\* the body the claim expects of the PUT: the arguments but item_id, without
\* the undefined ones
ExpectedUpdateBody(a) ==
    Obj([k \in {j \in DOMAIN a.props : j # "item_id" /\ a.props[j] # Undefined} |->
            a.props[k]])

UpdateSent(i) ==
    /\ Len(http[i]) = 1
    /\ http[i][1].method = "PUT"
    /\ http[i][1].url =
           <<API_BASE_URL, Lit("/inventory-items/")>>
           \o TemplateString(args[i].props.item_id)
    /\ http[i][1].data = ExpectedUpdateBody(args[i])

\* C10: an invocation of update_inventory_item with item_id present issues
\* exactly one PUT to /inventory-items/{item_id} whose body is the other
\* arguments that are not undefined, unchanged.
C10_UpdateSendsSuppliedFields ==
    \A i \in Inv :
        /\ Started(i)
        /\ variant = "full" /\ name[i] = "update_inventory_item"
        /\ ~Missing(i, "item_id")
        => UpdateSent(i)

\* the same for the invocations whose item_id passes the test of the code
UpdateSendsWhenAccepted ==
    \A i \in Inv :
        /\ Started(i)
        /\ variant = "full" /\ name[i] = "update_inventory_item"
        /\ ~Missing(i, "item_id") /\ Truthy(args[i].props.item_id)
        => UpdateSent(i)

\* the validation rejects exactly the falsy values
ValidationRejectsFalsy ==
    \A i \in Inv :
        /\ Started(i)
        /\ name[i] \in ValidatedTools \cap ListTools(variant)
        => (http[i] = <<>>) <=>
               \E k \in Required(name[i]) : ~Truthy(Get(OrEmpty(args[i]), k))

(***************************************************************************)
(* Failures of the backend                                                 *)
(***************************************************************************)
Requests(i, P(_)) == {k \in DOMAIN http[i] : P(http[i][k])}

IsSearchGet(req) ==
    req.method = "GET" /\ req.url = <<API_BASE_URL, Lit("/stock-locations")>>

\* C11: an invocation issues each of its requests at most once
\* (store_inventory_item at most one search, one POST of a location and one
\* POST of an item, in this order; every other tool at most one request),
\* and once a call has failed the invocation has ended in an error envelope
\* without a further request.
C11_NoRetryFailFast ==
    \A i \in Inv :
        /\ Len(received[i]) <= Len(http[i]) /\ Len(http[i]) <= Len(received[i]) + 1
        /\ name[i] = "store_inventory_item" =>
               /\ Len(http[i]) <= 3
               /\ Requests(i, IsSearchGet) \subseteq {1}
               /\ Cardinality(Requests(i, IsLocationPost)) <= 1
               /\ Cardinality(Requests(i, IsItemPost)) <= 1
               /\ \A k \in Requests(i, IsItemPost) : k = Len(http[i])
        /\ name[i] # "store_inventory_item" => Len(http[i]) <= 1
        /\ \A j \in DOMAIN received[i] :
               ~received[i][j].ok =>
                   /\ Done(i)
                   /\ Len(http[i]) = j
                   /\ IsEnvelope(result[i]) /\ StartsWithError(TextOf(i))

\* the POST of the new location failed: the invocation ended there, with
\* two requests and no POST of the item
C11_Witness ==
    \E i \in Inv :
        /\ name[i] = "store_inventory_item"
        /\ Len(received[i]) = 2 /\ received[i][1].ok /\ ~received[i][2].ok
        /\ Done(i) /\ Len(http[i]) = 2
        /\ Requests(i, IsItemPost) = {}

\* the body of the failed response has a message field
HasMessage(e) ==
    /\ e.response.type = "object"
    /\ Get(e.response, "data").type = "object"
    /\ "message" \in DOMAIN Get(e.response, "data").props

BackendMessage(e) == Get(Get(e.response, "data"), "message")

\* the contexts the catch blocks put before the message of a failed call
ContextOf(i, j) ==
    CASE name[i] = "store_inventory_item" /\ IsSearchGet(http[i][j]) ->
           <<Lit("Failed to store inventory item: "),
             Lit("Failed to find stock location: ")>>
      [] name[i] = "store_inventory_item" /\ IsLocationPost(http[i][j]) ->
           <<Lit("Failed to store inventory item: "),
             Lit("Failed to find stock location: "),
             Lit("Failed to create stock location: ")>>
      [] name[i] = "store_inventory_item" /\ IsItemPost(http[i][j]) ->
           <<Lit("Failed to store inventory item: ")>>
      [] name[i] = "get_stock_locations" -> <<Lit("Failed to get stock locations: ")>>
      [] name[i] = "create_stock_location" -> <<Lit("Failed to create stock location: ")>>
      [] name[i] = "get_inventory_items" -> <<Lit("Failed to get inventory items: ")>>
      [] name[i] = "create_inventory_item" -> <<Lit("Failed to create inventory item: ")>>
      [] name[i] = "update_inventory_item" -> <<Lit("Failed to update inventory item: ")>>
      [] name[i] = "delete_inventory_item" -> <<Lit("Failed to delete inventory item: ")>>

FailureText(i, j, detail) == <<Lit("Error: ")>> \o ContextOf(i, j) \o detail

\* C12, as claimed: after a failed call the text is "Error: ", the contexts
\* of the catch blocks, and then the message field of the failed response
\* when its body has one, the message of the transport error otherwise.
C12_MessageFieldWhenPresent ==
    \A i \in Inv :
        \A j \in DOMAIN received[i] :
            ~received[i][j].ok =>
                LET e == received[i][j].error
                IN  /\ Done(i)
                    /\ TextOf(i) = FailureText(i, j,
                           IF HasMessage(e) THEN TemplateString(BackendMessage(e))
                           ELSE e.message)

\* C12, amended: the message field of the failed response is used when its
\* body has one that is not empty; the message of the transport error is
\* used otherwise, also when the message field is the empty string.
C12_MessageFieldWhenNotEmpty ==
    \A i \in Inv :
        \A j \in DOMAIN received[i] :
            ~received[i][j].ok =>
                LET e == received[i][j].error
                IN  /\ Done(i)
                    /\ TextOf(i) = FailureText(i, j,
                           IF HasMessage(e) /\ Truthy(BackendMessage(e))
                           THEN TemplateString(BackendMessage(e))
                           ELSE e.message)

\* the POST of the new location failed with a message of the backend: the
\* text ends with that message, after the three contexts
C12_Witness ==
    \E i \in Inv :
        /\ name[i] = "store_inventory_item"
        /\ Len(received[i]) = 2 /\ ~received[i][2].ok
        /\ HasMessage(received[i][2].error)
        /\ Truthy(BackendMessage(received[i][2].error))
        /\ Done(i)
        /\ Len(TextOf(i)) = 4 + Len(BackendMessage(received[i][2].error).str)
        /\ TextOf(i)[4] = Lit("Failed to create stock location: ")
        /\ TextOf(i)[5] = Lit("I")

(***************************************************************************)
(* What the tools do to the backend                                        *)
(***************************************************************************)
IsPrefix(s, t) == Len(s) <= Len(t) /\ s = SubSeq(t, 1, Len(s))

IsStockLocationsRequest(req) ==
    Len(req.url) >= 2 /\ req.url[2] = Lit("/stock-locations")

\* the store_inventory_item invocation i created a location and its POST of
\* the item failed
CreatedThenItemFailed(i) ==
    /\ name[i] = "store_inventory_item"
    /\ Len(received[i]) = 3
    /\ IsLocationPost(http[i][2]) /\ received[i][2].ok
    /\ IsItemPost(http[i][3]) /\ ~received[i][3].ok

\* C15: the only requests to /stock-locations are GET and POST to the
\* collection; when store_inventory_item created a location and the POST of
\* the item failed, the invocation ends in an error envelope with no further
\* request and the location stays in the backend; no step removes or
\* changes a location the backend holds.
C15_NoMutationNoRollback ==
    /\ [](\A i \in Inv :
            /\ \A k \in DOMAIN http[i] :
                   IsStockLocationsRequest(http[i][k]) =>
                       /\ http[i][k].method \in {"GET", "POST"}
                       /\ http[i][k].url = <<API_BASE_URL, Lit("/stock-locations")>>
            /\ CreatedThenItemFailed(i) =>
                   /\ Done(i) /\ Len(http[i]) = 3
                   /\ IsEnvelope(result[i]) /\ StartsWithError(TextOf(i))
                   /\ received[i][2].data \in Range(locations))
    /\ [][IsPrefix(locations, locations')]_vars

\* a location was created, the POST of the item failed, and the backend
\* still holds the location
C15_Witness ==
    \E i \in Inv :
        /\ CreatedThenItemFailed(i)
        /\ Done(i) /\ StartsWithError(TextOf(i))
        /\ received[i][2].data \in Range(locations)

(***************************************************************************)
(* The tools of the six-tool and of the three-tool build                   *)
(***************************************************************************)
\* C16: every optional argument the schema of create_inventory_item declares
\* and the caller supplies is in the body of the POST to /inventory-items
\* with the same value.
C16_ForwardsDeclaredOptionals ==
    \A i \in Inv :
        /\ name[i] = "create_inventory_item"
        /\ name[i] \in ListTools(variant)
        /\ http[i] # <<>>
        => /\ IsItemPost(http[i][1])
           /\ \A k \in (CreateInventoryItemProperties(variant)
                          \ Required("create_inventory_item"))
                       \cap DOMAIN args[i].props :
                  args[i].props[k] # Undefined =>
                      Get(Wire(http[i][1].data), k) = args[i].props[k]

\* the fields createInventoryItem copies are forwarded with their values
\* (supplementary: what of C16 holds in both builds)
CreateForwardsCopiedFields ==
    \A i \in Inv :
        /\ name[i] = "create_inventory_item"
        /\ name[i] \in ListTools(variant)
        /\ http[i] # <<>>
        => /\ IsItemPost(http[i][1])
           /\ \A k \in CreateInventoryItemProperties("basic") \cap DOMAIN args[i].props :
                  args[i].props[k] # Undefined =>
                      Get(Wire(http[i][1].data), k) = args[i].props[k]

\* the method and the path documented for a tool
DocumentedRoute(i) ==
    CASE name[i] = "get_stock_locations" -> <<"GET", <<Lit("/stock-locations")>> >>
      [] name[i] = "create_stock_location" -> <<"POST", <<Lit("/stock-locations")>> >>
      [] name[i] = "get_inventory_items" -> <<"GET", <<Lit("/inventory-items")>> >>
      [] name[i] = "create_inventory_item" -> <<"POST", <<Lit("/inventory-items")>> >>
      [] name[i] = "update_inventory_item" ->
           <<"PUT", <<Lit("/inventory-items/")>> \o TemplateString(args[i].props.item_id)>>
      [] name[i] = "delete_inventory_item" ->
           <<"DELETE", <<Lit("/inventory-items/")>> \o TemplateString(args[i].props.item_id)>>

\* the caller supplied a search term: a search argument that is not empty
SearchTermSupplied(i) ==
    /\ args[i].type = "object"
    /\ "search" \in DOMAIN args[i].props
    /\ args[i].props.search # Str(<<>>)

\* the one request of invocation i is the documented one
RoutedOnce(i) ==
    /\ Len(http[i]) = 1
    /\ http[i][1].method = DocumentedRoute(i)[1]
    /\ http[i][1].url = <<API_BASE_URL>> \o DocumentedRoute(i)[2]
    /\ name[i] \in {"get_stock_locations", "get_inventory_items"} =>
           /\ SearchTermSupplied(i) =>
                  http[i][1].params = Obj([search |-> args[i].props.search])
           /\ ~SearchTermSupplied(i) => http[i][1].params = EmptyObj
    /\ (name[i] = "delete_inventory_item" /\ Done(i) /\ received[i][1].ok) =>
           /\ ~StartsWithError(TextOf(i))
           /\ TextOf(i)[Len(TextOf(i))] =
                  TemplateString(args[i].props.item_id)[1]

RoutedTools == ListTools("full") \ {"store_inventory_item"}

\* C17: an invocation of a tool with every required argument present issues
\* exactly one request, of the documented method and path; the two GET tools
\* send the search parameter exactly when a search term was supplied, and
\* the text of a successful delete ends with the item id.
C17_ValidRoutesOnce ==
    \A i \in Inv :
        /\ Started(i)
        /\ name[i] \in ListTools(variant) \cap RoutedTools
        /\ ~SomeMissing(i)
        => RoutedOnce(i)

\* the same for the invocations the validation accepts: every required
\* argument present and not falsy (supplementary: what of C17 holds)
RoutesOnceWhenAccepted ==
    \A i \in Inv :
        /\ Started(i)
        /\ name[i] \in ListTools(variant) \cap RoutedTools
        /\ ~SomeMissing(i)
        /\ \A k \in Required(name[i]) : Truthy(args[i].props[k])
        => RoutedOnce(i)

(***************************************************************************)
(* Concurrent invocations                                                  *)
(***************************************************************************)
\* what the handler suspended at a label does with the answer r, from the
\* arguments and the location the invocation resolved
Continue(a, label, loc, r) ==
    CASE label = "findSearch" ->
           StoreInventoryItemResolved(a,
               FindOrCreateStockLocationFound(Get(a, "location_description"), r))
      [] label = "createLocation" ->
           StoreInventoryItemResolved(a, FindOrCreateStockLocationCreated(r))
      [] label = "storeItem" -> StoreInventoryItemDone(a, loc, r)
      [] label = "getStockLocations" -> GetStockLocationsDone(OptGet(a, "search"), r)
      [] label = "createStockLocation" -> CreateStockLocationDone(r)
      [] label = "getInventoryItems" -> GetInventoryItemsDone(OptGet(a, "search"), r)
      [] label = "createInventoryItem" -> CreateInventoryItemDone(r)
      [] label = "updateInventoryItem" -> UpdateInventoryItemDone(OrEmpty(a), r)
      [] label = "deleteInventoryItem" -> DeleteInventoryItemDone(OrEmpty(a), r)

\* the location an answer resolves, if it does
ResolvedBy(a, label, loc, r) ==
    LET found == IF label = "findSearch"
                 THEN FindOrCreateStockLocationFound(Get(a, "location_description"), r)
                 ELSE IF label = "createLocation"
                 THEN FindOrCreateStockLocationCreated(r)
                 ELSE Return(loc)
    IN  IF found.kind = "return" THEN found.value ELSE loc

After(st, step, loc) ==
    [pc |-> IF step.kind = "await" THEN step.label ELSE "done",
     http |-> IF step.kind = "await" THEN Append(st.http, step.request) ELSE st.http,
     result |-> CASE step.kind = "return" -> step.value
                  [] step.kind = "throw" ->
                       TextContent(<<Lit("Error: ")>> \o step.error.message)
                  [] OTHER -> st.result,
     loc |-> loc]

\* an invocation of tool nm with arguments a that got the answers rs, run
\* alone
RECURSIVE Alone(_, _, _, _)
Alone(v, nm, a, rs) ==
    IF rs = <<>>
    THEN After([http |-> <<>>, result |-> NoResult], Switch(v, nm, a), Undefined)
    ELSE LET st == Alone(v, nm, a, SubSeq(rs, 1, Len(rs) - 1))
             r == rs[Len(rs)]
         IN  After(st, Continue(a, st.pc, st.loc, r), ResolvedBy(a, st.pc, st.loc, r))

\* C13: in every interleaving the requests an invocation has issued, where
\* it is suspended and the envelope it returns are those of the same tool
\* with the same arguments and the same answers run alone; nothing of an
\* invocation is kept once it has returned.
C13_Independent ==
    \A i \in Inv :
        IF Started(i)
        THEN LET alone == Alone(variant, name[i], args[i], received[i])
             IN  /\ pc[i] = alone.pc
                 /\ http[i] = alone.http
                 /\ result[i] = alone.result
        ELSE /\ http[i] = <<>> /\ received[i] = <<>>
             /\ stockLocation[i] = Undefined
             /\ result[i] = NoResult

\* two store_inventory_item invocations with the same arguments are both
\* suspended at the POST of the item, each with the location it resolved:
\* one created it, the other found it
C13_Witness ==
    \E i, j \in Inv :
        /\ i # j
        /\ pc[i] = "storeItem" /\ pc[j] = "storeItem"
        /\ args[i] = args[j]
        /\ Len(received[i]) = 2 /\ Len(received[j]) = 1
        /\ Get(Pending(i).data, "stock_location_id")
               = Get(Pending(j).data, "stock_location_id")
        /\ http[i] # http[j]

AutoCreated(l) ==
    /\ Get(l, "description").type = "string"
    /\ Len(Get(l, "description").str) >= 1
    /\ Get(l, "description").str[1] = "Auto-created location: "

\* C14: the backend never holds two auto-created locations of the same name.
C14_NoDuplicateAutoCreated ==
    \A k, m \in DOMAIN locations :
        /\ k # m
        /\ AutoCreated(locations[k]) /\ AutoCreated(locations[m])
        => Get(locations[k], "name") # Get(locations[m], "name")

\* C18: when every HTTP call completes, every invocation comes to its end
\* with an envelope, whatever the other invocations do, and the envelope of
\* an invocation is set once.
C18_RunsToCompletion ==
    /\ \A i \in Inv : Started(i) ~> (Done(i) /\ IsEnvelope(result[i]))
    /\ [][\A i \in Inv :
            result[i] # NoResult => (result'[i] = result[i] \/ pc'[i] = "idle")]_vars

\* an invocation has come to its end after three HTTP calls while another
\* is suspended at one of its own
C18_Witness ==
    \E i, j \in Inv :
        /\ i # j
        /\ Done(i) /\ IsEnvelope(result[i]) /\ Len(received[i]) = 3
        /\ Started(j) /\ ~Done(j) /\ Len(http[j]) = Len(received[j]) + 1

====
